---- MODULE Spec2Model ----
\* A model of oauth_fcm: the TokenManager's token cache (src/src/token_manager.rs),
\* the SharedTokenManager (an Arc<tokio::sync::Mutex<TokenManager>>) used by
\* concurrent tasks, and send_fcm_message_with_url (src/src/fcm.rs).
\*
\* One step of the model is the code a task runs between two suspension points
\* (.await): acquiring the lock, the authorization exchange (send, then the body),
\* the messaging POST (send, then the error body).
EXTENDS Integers, FiniteSets, Sequences, TLC

\* ------------------------------------------------------------------ bounds
\* Number of concurrent tasks holding a clone of the SharedTokenManager.
NumTasks == 2
\* Last value of the monotonic clock (Instant::now(), in seconds) the model reaches.
MaxTime == 2
\* Number of distinct access_token strings the authorization server hands out.
NumTokens == 2
\* Width, in bits, of the model's unsigned second counts. The program's is 64
\* (u64 expires_in, i64 seconds inside Instant); the model keeps the relation
\* between the two ranges at a width TLC can enumerate.
SecsBits == 4

Tasks == 1 .. NumTasks
Tokens == 1 .. NumTokens
\* u64::MAX and i64::MAX at the model's width.
U64Max == 2 ^ SecsBits - 1
I64Max == 2 ^ (SecsBits - 1) - 1

\* Option<T>: None is the empty sequence, Some(x) the one-element sequence.
None == << >>
Some(x) == << x >>

\* ------------------------------------------------------------------ inputs
\* expires_in values an authorization response carries: 0, small ones, u64::MAX.
ExpiresIn == {0, 1, 2, U64Max}
\* HTTP statuses of the authorization endpoint (the mock servers of the tests
\* answer 200 and 400) and of the messaging endpoint (200 and 500 in the tests).
AuthStatuses == {200, 400}
FcmStatuses == {200, 204, 401, 500}
\* Bodies of a messaging response that is no success.
Bodies == {"Internal Server Error", ""}
\* The public operations a task calls through the shared manager.
Ops == {"is_token_expired", "get_token", "refresh_token", "send"}
\* Option<FcmNotification> and Option<T: Serialize> arguments of a send. A data
\* payload either serializes (serde_json::to_value is Ok) or does not.
Notifications == {None, Some([title |-> "Test Title", body |-> "Test Body"])}
DataPayloads == {None, Some("value"), Some("unserializable")}
\* device_token arguments of a send.
DeviceTokens == {"test_device_token", "other_device_token"}

\* Credential streams handed to create_shared_token_manager: whether the bytes are
\* JSON at all, the members of the JSON object (project_id is one the
\* ServiceAccountKey does not have), and whether private_key is an RSA PEM key.
RequiredFields == {"private_key", "client_email", "private_key_id"}
CredentialStreams ==
    [valid_json : BOOLEAN,
     members : SUBSET (RequiredFields \cup {"project_id"}),
     rsa_pem : BOOLEAN]

VARIABLES
    credentials,    \* the credential stream create_shared_token_manager is to read
    created,        \* what create_shared_token_manager returned: "" (not called yet),
                    \* "Ok" (the SharedTokenManager exists) or the error
    token,          \* TokenManager.token: Option<String>
    expires_at,     \* TokenManager.expires_at: Option<Instant>
    keyValid,       \* whether service_account_key.private_key is a valid RSA PEM key
    guard,          \* the tasks holding a MutexGuard of the shared manager
    now,            \* the monotonic clock, Instant::now()
    pc,             \* pc[t]: the suspension point task t is at
    call,           \* call[t]: the locals of task t's call in progress
    lastOk,         \* history: when the last successful refresh wrote, and its expires_in,
                    \* as long as no refresh has started since
    ev,             \* history: what the step just taken observed, if it finished an operation
    refreshBegun,   \* history: some refresh has started on this manager
    lastRefresh,    \* history: how the last finished refresh ended, and who made it
    written,        \* history: the <<token, expires_at>> the last successful refresh wrote
    extraHit        \* history: get_token has begun an exchange since the last successful refresh

vars == << token, expires_at, keyValid, credentials, created, guard, now, pc, call, ev,
           refreshBegun, lastRefresh, lastOk, written, extraHit >>

\* ------------------------------------------------------------------ pure functions
\* TokenManager::is_token_expired: expires_at.map(|e| e <= Instant::now()).unwrap_or(true)
\* (variants: `<` for `<=`; unwrap_or(false))
is_token_expired_strict(exp, n) == IF exp = None THEN TRUE ELSE exp[1] < n
is_token_expired_unset(exp, n) == IF exp = None THEN FALSE ELSE exp[1] <= n
is_token_expired(exp, n) == IF exp = None THEN TRUE ELSE exp[1] <= n

\* Instant::now() + Duration::from_secs(expires_in): Instant::add is checked_add
\* followed by expect("overflow when adding duration to instant"); None is the panic.
\* (variants: Duration::from_millis, which adds no whole second for small values;
\* the duration taken from the clock's origin instead of Instant::now())
instant_add_millis(n, secs) == IF n + secs <= I64Max THEN Some(n) ELSE None
instant_add_origin(n, secs) == IF n + secs <= I64Max THEN Some(secs) ELSE None
instant_add(n, secs) == IF n + secs <= I64Max THEN Some(n + secs) ELSE None

\* create_signed_jwt: EncodingKey::from_rsa_pem fails on a key that is no RSA PEM.
\* (variant: the key is not looked at before the request is sent)
create_signed_jwt_unchecked(valid) == "Ok"
create_signed_jwt(valid) == IF valid THEN "Ok" ELSE "JwtEncodeError"

\* get_token's test for the cached path: `if let Some(token) = &self.token` and
\* `!self.is_token_expired()`. (variants: the expiry test left out; the negation
\* left out; the cached path left out; a token refreshed one second early)
use_cached_always(tok, exp, n) == tok # None
use_cached_inverted(tok, exp, n) == tok # None /\ is_token_expired(exp, n)
use_cached_never(tok, exp, n) == FALSE
use_cached_margin(tok, exp, n) == tok # None /\ exp # None /\ n + 1 < exp[1]
use_cached(tok, exp, n) == tok # None /\ ~is_token_expired(exp, n)

\* serde_json::to_value(data_payload): the JSON value of the data, or the error
\* of its Serialize implementation.
to_value(d) ==
    IF d = "unserializable"
    THEN [err |-> "SerializationError", value |-> None]
    ELSE [err |-> "", value |-> Some(d)]

\* create_payload: Ok(payload) or the error. A json! object is the record of the
\* members written; `data` is serde_json::to_value(data_payload).
\* (variant: the device token left out of the data-only envelope)
create_payload_no_token(device_token, notification, data) ==
    IF notification # None /\ data # None THEN
        IF to_value(data[1]).err # ""
        THEN [err |-> to_value(data[1]).err, payload |-> None]
        ELSE [err |-> "", payload |-> Some([message |->
                [token |-> device_token,
                 notification |-> [title |-> notification[1].title,
                                   body |-> notification[1].body],
                 data |-> to_value(data[1]).value[1]]])]
    ELSE IF notification = None /\ data # None THEN
        IF to_value(data[1]).err # ""
        THEN [err |-> to_value(data[1]).err, payload |-> None]
        ELSE [err |-> "", payload |-> Some([message |->
                [token |-> "",
                 data |-> to_value(data[1]).value[1]]])]
    ELSE IF notification # None /\ data = None THEN
        [err |-> "", payload |-> Some([message |->
                [token |-> device_token,
                 notification |-> [title |-> notification[1].title,
                                   body |-> notification[1].body]]])]
    ELSE [err |-> "FcmInvalidPayloadError", payload |-> None]
create_payload(device_token, notification, data) ==
    IF notification # None /\ data # None THEN
        IF to_value(data[1]).err # ""
        THEN [err |-> to_value(data[1]).err, payload |-> None]
        ELSE [err |-> "", payload |-> Some([message |->
                [token |-> device_token,
                 notification |-> [title |-> notification[1].title,
                                   body |-> notification[1].body],
                 data |-> to_value(data[1]).value[1]]])]
    ELSE IF notification = None /\ data # None THEN
        IF to_value(data[1]).err # ""
        THEN [err |-> to_value(data[1]).err, payload |-> None]
        ELSE [err |-> "", payload |-> Some([message |->
                [token |-> device_token,
                 data |-> to_value(data[1]).value[1]]])]
    ELSE IF notification # None /\ data = None THEN
        [err |-> "", payload |-> Some([message |->
                [token |-> device_token,
                 notification |-> [title |-> notification[1].title,
                                   body |-> notification[1].body]]])]
    ELSE [err |-> "FcmInvalidPayloadError", payload |-> None]

\* value[key] of serde_json (the Index the unit tests read the envelope with):
\* the member, or Null (None) when the object has no such member.
json_index(value, key) == IF key \in DOMAIN value THEN Some(value[key]) ELSE None

\* StatusCode::is_success: 200 <= status < 300.
\* (variant: client errors taken for success)
is_success_lax(status) == status >= 200 /\ status < 500
is_success(status) == status >= 200 /\ status < 300

\* ResultMapError: a NetworkError becomes FcmError::OAuthNetworkError at the call
\* sites of the authorization endpoint and FcmError::FcmNetworkError at those of
\* the messaging endpoint.
\* (variant: the messaging call sites wrapped as authorization errors)
map_oauth_err(e) == "OAuthNetworkError(" \o e \o ")"
map_fcm_err_as_oauth(e) == map_oauth_err(e)
map_fcm_err(e) == "FcmNetworkError(" \o e \o ")"

\* serde_json::from_reader::<ServiceAccountKey>: an error when the bytes are no
\* JSON or a field of the struct is missing; members the struct does not have
\* are skipped. The `?` of TokenManager::new turns the serde_json::Error into
\* FcmError::SerializationError (#[from], error.rs:22-23).
\* (variant: #[serde(deny_unknown_fields)])
from_reader_deny_unknown(stream) ==
    IF stream.valid_json /\ stream.members = RequiredFields
    THEN [err |-> "", private_key_valid |-> stream.rsa_pem]
    ELSE [err |-> "SerializationError", private_key_valid |-> FALSE]
from_reader(stream) ==
    IF stream.valid_json /\ RequiredFields \subseteq stream.members
    THEN [err |-> "", private_key_valid |-> stream.rsa_pem]
    ELSE [err |-> "SerializationError", private_key_valid |-> FALSE]

\* tokio::sync::Mutex::lock().await completes only when no guard is out.
\* (variants: no mutual exclusion; a semaphore of two permits)
lock_free_always(g) == TRUE
lock_free_two_permits(g) == Cardinality(g) <= 1
lock_free(g) == g = {}

\* The MutexGuard of task t goes out of scope: at the end of the block around
\* get_token in a send (fcm.rs:90-93), at the end of the caller's statement, or
\* when the call's future is dropped or unwinds.
\* (variant: the guard is kept until the send is over)
drop_guard_never(g, t) == g
drop_guard(g, t) == g \ {t}

\* ------------------------------------------------------------------ state
NoRefresh == [outcome |-> "none", by |-> ""]

IdleCall ==
    [op |-> "", status |-> 0, bearer |-> None, exch |-> 0, posts |-> 0,
     pre |-> << None, None >>, prior |-> NoRefresh, fresh |-> FALSE, resp |-> None]

\* ev.gt: how get_token ended in this step ("cached", "refreshed", "err");
\* ev.refresh: how a refresh ended in this step ("ok", "err", "panic");
\* ev.ret: the call returned to its caller, with ev.res; ev.tok: the token
\* get_token or refresh_token returned; ev.expired: is_token_expired's result;
\* ev.payload: the notification and data create_payload was given, ev.device its
\* device_token, ev.message what it returned when Ok; ev.text: the body of the
\* messaging response, when it was read; ev.credentials: the stream
\* create_shared_token_manager (ev.op = "new") read; ev.resp: the
\* AccessTokenResponse the authorization body decoded to; the other fields are the
\* call's locals (pre: <<token, expires_at>> when it entered the manager).
NoEvent ==
    [task |-> 0, op |-> "", exch |-> 0, posts |-> 0, bearer |-> None,
     pre |-> << None, None >>, prior |-> NoRefresh, fresh |-> FALSE,
     gt |-> "none", refresh |-> "none", ret |-> FALSE, res |-> "",
     tok |-> None, expired |-> FALSE, status |-> 0, payload |-> << >>,
     device |-> "", message |-> None, text |-> None, credentials |-> None,
     resp |-> None]

\* The program before it calls create_shared_token_manager: it has a credential
\* stream and no manager.
Init ==
    /\ credentials \in {Some(stream) : stream \in CredentialStreams}
    /\ created = ""
    /\ token = None
    /\ expires_at = None
    /\ keyValid = FALSE
    /\ guard = {}
    /\ now = 0
    /\ pc = [t \in Tasks |-> "idle"]
    /\ call = [t \in Tasks |-> IdleCall]
    /\ ev = NoEvent
    /\ refreshBegun = FALSE
    /\ lastRefresh = NoRefresh
    /\ lastOk = None
    /\ written = << None, None >>
    /\ extraHit = FALSE

\* ------------------------------------------------------------------ helpers
\* Who runs the refresh of a call: refresh_token itself, or get_token (called
\* directly or by send_fcm_message_with_url).
RefreshBy(op) == IF op = "refresh_token" THEN "refresh_token" ELSE "get_token"

\* What a step of task t with call record c observes; the caller fills in the rest.
Obs(t, c) ==
    [NoEvent EXCEPT !.task = t, !.op = c.op, !.exch = c.exch, !.posts = c.posts,
                    !.bearer = c.bearer, !.pre = c.pre, !.prior = c.prior,
                    !.fresh = c.fresh, !.status = c.status, !.resp = c.resp]

\* The call of task t is over (returned, panicked or dropped): its locals are gone.
Ends(t, e) ==
    /\ pc' = [pc EXCEPT ![t] = "idle"]
    /\ call' = [call EXCEPT ![t] = IdleCall]
    /\ ev' = e

\* The locals of a call at the moment it enters the manager with the lock held.
Entered(c) ==
    [c EXCEPT !.pre = << token, expires_at >>, !.prior = lastRefresh,
              !.fresh = ~refreshBegun]

\* get_token returned Ok(tok) to task t (how: "cached" or "refreshed"). A direct
\* get_token / refresh_token call returns it. In send_fcm_message_with_url
\* (fcm.rs:90-108) the guard is dropped, create_payload runs, and the messaging
\* POST is sent with the token as bearer. The device token, the notification and
\* the data of a send are read here for the first time (fcm.rs:97), so here they
\* are drawn.
\* (variant: the POST carries the token that was cached when the call entered)
GotToken_stale_bearer(t, c, tok, how, refresh) ==
    LET e == [Obs(t, c) EXCEPT !.gt = IF c.op = "refresh_token" THEN "none" ELSE how,
                               !.refresh = refresh, !.tok = Some(tok)]
    IN  IF c.op # "send"
        THEN Ends(t, [e EXCEPT !.ret = TRUE, !.res = "Ok"])
        ELSE \E device_token \in DeviceTokens, notification \in Notifications,
                data \in DataPayloads :
            LET payload == create_payload(device_token, notification, data)
                e2 == [e EXCEPT !.payload = << notification, data >>,
                                !.device = device_token,
                                !.message = payload.payload]
            IN  IF payload.err # ""
                THEN Ends(t, [e2 EXCEPT !.ret = TRUE, !.res = payload.err])
                ELSE /\ pc' = [pc EXCEPT ![t] = "fcm_send"]
                     /\ call' = [call EXCEPT ![t] =
                            [IdleCall EXCEPT !.op = c.op, !.exch = c.exch,
                                             !.bearer = c.pre[1],
                                             !.posts = c.posts + 1]]
                     /\ ev' = e2
GotToken(t, c, tok, how, refresh) ==
    LET e == [Obs(t, c) EXCEPT !.gt = IF c.op = "refresh_token" THEN "none" ELSE how,
                               !.refresh = refresh, !.tok = Some(tok)]
    IN  IF c.op # "send"
        THEN Ends(t, [e EXCEPT !.ret = TRUE, !.res = "Ok"])
        ELSE \E device_token \in DeviceTokens, notification \in Notifications,
                data \in DataPayloads :
            LET payload == create_payload(device_token, notification, data)
                e2 == [e EXCEPT !.payload = << notification, data >>,
                                !.device = device_token,
                                !.message = payload.payload]
            IN  IF payload.err # ""
                THEN Ends(t, [e2 EXCEPT !.ret = TRUE, !.res = payload.err])
                ELSE /\ pc' = [pc EXCEPT ![t] = "fcm_send"]
                     /\ call' = [call EXCEPT ![t] =
                            [IdleCall EXCEPT !.op = c.op, !.exch = c.exch,
                                             !.bearer = Some(tok),
                                             !.posts = c.posts + 1]]
                     /\ ev' = e2

\* A refresh of task t ended with the error res (the `?` of token_manager.rs:141-142,
\* before any assignment); get_token and send return it unchanged (fcm.rs:92).
RefreshFailed(t, c, res) ==
    /\ lastRefresh' = [outcome |-> "err", by |-> RefreshBy(c.op)]
    /\ Ends(t, [Obs(t, c) EXCEPT !.gt = IF c.op = "refresh_token" THEN "none" ELSE "err",
                                 !.refresh = "err", !.ret = TRUE, !.res = res])

\* ------------------------------------------------------------------ actions
\* create_shared_token_manager(credentials): TokenManager::new reads the stream;
\* on an error no manager exists, otherwise the manager starts with token: None,
\* expires_at: None and the key read, inside an Arc<Mutex<..>>.
CreateSharedTokenManager ==
    /\ credentials # None
    /\ LET key == from_reader(credentials[1]) IN
        /\ created' = IF key.err = "" THEN "Ok" ELSE key.err
        /\ keyValid' = key.private_key_valid
        /\ ev' = [NoEvent EXCEPT !.op = "new", !.ret = TRUE,
                                 !.res = IF key.err = "" THEN "Ok" ELSE key.err,
                                 !.credentials = credentials]
    /\ credentials' = None
    /\ token' = None
    /\ expires_at' = None
    /\ UNCHANGED << guard, now, pc, call, refreshBegun, lastRefresh, lastOk, written,
                    extraHit >>

\* A task starts a call on its clone of the SharedTokenManager and reaches
\* token_manager.lock().await. Without a manager there is nothing to call.
Call(t) ==
    /\ created = "Ok"
    /\ pc[t] = "idle"
    /\ \E op \in Ops :
        call' = [call EXCEPT ![t] = [IdleCall EXCEPT !.op = op]]
    /\ pc' = [pc EXCEPT ![t] = "lock"]
    /\ ev' = NoEvent
    /\ UNCHANGED << token, expires_at, keyValid, credentials, created, guard, now, refreshBegun,
                    lastRefresh, lastOk, written, extraHit >>

\* guard.is_token_expired(): takes &self, no suspension point; the guard is
\* acquired and dropped in the same step.
\* (variant: an expired token is evicted from the cache by the test)
IsTokenExpired_evicting(t) ==
    /\ pc[t] = "lock"
    /\ call[t].op = "is_token_expired"
    /\ lock_free(guard)
    /\ Ends(t, [Obs(t, Entered(call[t])) EXCEPT
                    !.ret = TRUE, !.res = "Ok",
                    !.expired = is_token_expired(expires_at, now)])
    /\ IF is_token_expired(expires_at, now)
       THEN token' = None /\ expires_at' = None
       ELSE UNCHANGED << token, expires_at >>
    /\ UNCHANGED << keyValid, credentials, created, guard, now, refreshBegun,
                    lastRefresh, lastOk, written, extraHit >>
IsTokenExpired(t) ==
    /\ pc[t] = "lock"
    /\ call[t].op = "is_token_expired"
    /\ lock_free(guard)
    /\ Ends(t, [Obs(t, Entered(call[t])) EXCEPT
                    !.ret = TRUE, !.res = "Ok",
                    !.expired = is_token_expired(expires_at, now)])
    /\ UNCHANGED << token, expires_at, keyValid, credentials, created, guard, now, refreshBegun,
                    lastRefresh, lastOk, written, extraHit >>

\* get_token, cached path (token_manager.rs:85-90): no suspension point.
GetTokenCached(t) ==
    /\ pc[t] = "lock"
    /\ call[t].op \in {"get_token", "send"}
    /\ lock_free(guard)
    /\ use_cached(token, expires_at, now)
    /\ GotToken(t, Entered(call[t]), token[1], "cached", "none")
    /\ UNCHANGED << token, expires_at, keyValid, credentials, created, guard, now, refreshBegun,
                    lastRefresh, lastOk, written, extraHit >>

\* refresh_token_with_url up to its first suspension point: called by refresh_token,
\* or by get_token when the cached path is not taken. create_signed_jwt runs first;
\* if it fails nothing is sent, otherwise the form POST is sent (get_access_token).
RefreshBegin(t) ==
    /\ pc[t] = "lock"
    /\ \/ call[t].op = "refresh_token"
       \/ call[t].op \in {"get_token", "send"} /\ ~use_cached(token, expires_at, now)
    /\ lock_free(guard)
    /\ refreshBegun' = TRUE
    /\ lastOk' = None
    /\ IF create_signed_jwt(keyValid) # "Ok"
       THEN /\ RefreshFailed(t, Entered(call[t]), create_signed_jwt(keyValid))
            /\ UNCHANGED << guard, extraHit >>
       ELSE /\ guard' = guard \cup {t}
            /\ pc' = [pc EXCEPT ![t] = "auth_send"]
            /\ call' = [call EXCEPT ![t] =
                    [Entered(call[t]) EXCEPT !.exch = call[t].exch + 1]]
            /\ extraHit' = (extraHit \/ call[t].op # "refresh_token")
            /\ ev' = NoEvent
            /\ UNCHANGED lastRefresh
    /\ UNCHANGED << token, expires_at, keyValid, credentials, created, now, written >>

\* client.post(..).send().await fails: OAuthNetworkError(SendRequestError).
\* (variant: the guard is leaked on this error path)
AuthSendError_leaks_guard(t) ==
    /\ pc[t] = "auth_send"
    /\ RefreshFailed(t, call[t], map_oauth_err("SendRequestError"))
    /\ UNCHANGED << token, expires_at, keyValid, credentials, created, guard, now,
                    refreshBegun, lastOk, written, extraHit >>
AuthSendError(t) ==
    /\ pc[t] = "auth_send"
    /\ guard' = drop_guard(guard, t)
    /\ RefreshFailed(t, call[t], map_oauth_err("SendRequestError"))
    /\ UNCHANGED << token, expires_at, keyValid, credentials, created, now, refreshBegun, lastOk, written,
                    extraHit >>

\* The authorization endpoint answers; the status is logged, not checked
\* (token_manager.rs:205), and the body is awaited.
\* (variant: the cached token is cleared as soon as the endpoint answers)
AuthSendOk_clears_cache(t) ==
    /\ pc[t] = "auth_send"
    /\ \E status \in AuthStatuses :
        call' = [call EXCEPT ![t].status = status]
    /\ pc' = [pc EXCEPT ![t] = "auth_body"]
    /\ ev' = NoEvent
    /\ token' = None
    /\ expires_at' = None
    /\ UNCHANGED << keyValid, credentials, created, guard, now, refreshBegun,
                    lastRefresh, lastOk, written, extraHit >>
AuthSendOk(t) ==
    /\ pc[t] = "auth_send"
    /\ \E status \in AuthStatuses :
        call' = [call EXCEPT ![t].status = status]
    /\ pc' = [pc EXCEPT ![t] = "auth_body"]
    /\ ev' = NoEvent
    /\ UNCHANGED << token, expires_at, keyValid, credentials, created, guard, now, refreshBegun,
                    lastRefresh, lastOk, written, extraHit >>

\* response.json::<AccessTokenResponse>().await fails: OAuthNetworkError(ResponseError).
AuthBodyError(t) ==
    /\ pc[t] = "auth_body"
    /\ guard' = drop_guard(guard, t)
    /\ RefreshFailed(t, call[t], map_oauth_err("ResponseError"))
    /\ UNCHANGED << token, expires_at, keyValid, credentials, created, now, refreshBegun, lastOk, written,
                    extraHit >>
\* The body decodes to {access_token, expires_in} (token_manager.rs:144-150):
\* self.token is assigned, then Instant::now() + Duration::from_secs(expires_in)
\* is evaluated and assigned to self.expires_at. When the addition overflows it
\* panics after self.token was assigned: the task unwinds, which drops the guard
\* (a tokio Mutex is not poisoned), and the manager lives on in the Arc.
AuthBodyOk(t) ==
    /\ pc[t] = "auth_body"
    /\ guard' = drop_guard(guard, t)
    /\ \E tok \in Tokens, expires_in \in ExpiresIn :
        LET exp == instant_add(now, expires_in)
            c == [call[t] EXCEPT !.resp = Some([access_token |-> tok,
                                                expires_in |-> expires_in])]
        IN
        /\ token' = Some(tok)
        /\ IF exp = None
           THEN /\ UNCHANGED << expires_at, lastOk, written, extraHit >>
                /\ lastRefresh' = [outcome |-> "panic", by |-> ""]
                /\ Ends(t, [Obs(t, c) EXCEPT
                                !.refresh = "panic", !.res = "Panic"])
           ELSE /\ expires_at' = exp
                /\ written' = << token', expires_at' >>
                /\ extraHit' = FALSE
                /\ lastRefresh' = [outcome |-> "ok", by |-> ""]
                /\ lastOk' = Some([at |-> now, expires_in |-> expires_in])
                /\ GotToken(t, c, tok, "refreshed", "ok")
    /\ UNCHANGED << keyValid, credentials, created, now, refreshBegun >>

\* The messaging POST cannot be sent: FcmNetworkError(SendRequestError).
FcmSendError(t) ==
    /\ pc[t] = "fcm_send"
    /\ Ends(t, [Obs(t, call[t]) EXCEPT
                    !.ret = TRUE, !.res = map_fcm_err("SendRequestError")])
    /\ UNCHANGED << token, expires_at, keyValid, credentials, created, guard, now, refreshBegun,
                    lastRefresh, lastOk, written, extraHit >>

\* The messaging endpoint answers (fcm.rs:110-119): a 2xx status is Ok(()),
\* any other status has its body read as text.
FcmSendOk(t) ==
    /\ pc[t] = "fcm_send"
    /\ \E status \in FcmStatuses :
        IF is_success(status)
        THEN Ends(t, [Obs(t, call[t]) EXCEPT
                          !.ret = TRUE, !.res = "Ok", !.status = status])
        ELSE /\ pc' = [pc EXCEPT ![t] = "fcm_text"]
             /\ call' = [call EXCEPT ![t].status = status]
             /\ ev' = NoEvent
    /\ UNCHANGED << token, expires_at, keyValid, credentials, created, guard, now, refreshBegun,
                    lastRefresh, lastOk, written, extraHit >>

\* res.text().await fails: FcmNetworkError(ResponseError).
FcmTextError(t) ==
    /\ pc[t] = "fcm_text"
    /\ Ends(t, [Obs(t, call[t]) EXCEPT
                    !.ret = TRUE, !.res = map_fcm_err("ResponseError")])
    /\ UNCHANGED << token, expires_at, keyValid, credentials, created, guard, now, refreshBegun,
                    lastRefresh, lastOk, written, extraHit >>

\* The error body is read: FcmNetworkError(ServerError(status, Some(text))); the
\* status is ev.status and Some(text) is ev.text.
\* (variant: a 401 answer evicts the cached token)
FcmTextOk_evicting(t) ==
    /\ pc[t] = "fcm_text"
    /\ \E text \in Bodies :
        Ends(t, [Obs(t, call[t]) EXCEPT
                    !.ret = TRUE, !.res = map_fcm_err("ServerError"),
                    !.text = Some(text)])
    /\ IF call[t].status = 401
       THEN token' = None /\ expires_at' = None
       ELSE UNCHANGED << token, expires_at >>
    /\ UNCHANGED << keyValid, credentials, created, guard, now, refreshBegun,
                    lastRefresh, lastOk, written, extraHit >>
FcmTextOk(t) ==
    /\ pc[t] = "fcm_text"
    /\ \E text \in Bodies :
        Ends(t, [Obs(t, call[t]) EXCEPT
                    !.ret = TRUE, !.res = map_fcm_err("ServerError"),
                    !.text = Some(text)])
    /\ UNCHANGED << token, expires_at, keyValid, credentials, created, guard, now, refreshBegun,
                    lastRefresh, lastOk, written, extraHit >>

\* The caller drops the future of a call at one of its suspension points: its
\* locals are dropped, the MutexGuard among them.
Cancel(t) ==
    /\ pc[t] \in {"lock", "auth_send", "auth_body", "fcm_send", "fcm_text"}
    /\ guard' = drop_guard(guard, t)
    /\ Ends(t, [Obs(t, call[t]) EXCEPT
                    !.res = "Cancelled"])
    /\ UNCHANGED << token, expires_at, keyValid, credentials, created, now, refreshBegun,
                    lastRefresh, lastOk, written, extraHit >>

\* Monotonic time passes.
Tick ==
    /\ now < MaxTime
    /\ now' = now + 1
    /\ ev' = NoEvent
    /\ UNCHANGED << token, expires_at, keyValid, credentials, created, guard, pc, call,
                    refreshBegun, lastRefresh, lastOk, written, extraHit >>

Next ==
    \/ CreateSharedTokenManager
    \/ \E t \in Tasks : Call(t)
    \/ \E t \in Tasks : IsTokenExpired(t)
    \/ \E t \in Tasks : GetTokenCached(t)
    \/ \E t \in Tasks : RefreshBegin(t)
    \/ \E t \in Tasks : AuthSendError(t)
    \/ \E t \in Tasks : AuthSendOk(t)
    \/ \E t \in Tasks : AuthBodyError(t)
    \/ \E t \in Tasks : AuthBodyOk(t)
    \/ \E t \in Tasks : FcmSendError(t)
    \/ \E t \in Tasks : FcmSendOk(t)
    \/ \E t \in Tasks : FcmTextError(t)
    \/ \E t \in Tasks : FcmTextOk(t)
    \/ \E t \in Tasks : Cancel(t)
    \/ Tick

Spec == Init /\ [][Next]_vars

\* ------------------------------------------------------------------ progress
\* The specification for progress: every HTTP exchange eventually completes with
\* a response or an error (each .await of reqwest resolves), and a task waiting
\* in lock().await eventually gets the lock whenever it keeps becoming free
\* (tokio's Mutex hands the lock out in FIFO order). No call is dropped by its
\* caller and the clock stays where it is; the authorization server hands out
\* one access_token string.
Fairness ==
    \A t \in Tasks :
        /\ SF_vars(IsTokenExpired(t) \/ GetTokenCached(t) \/ RefreshBegin(t))
        /\ WF_vars(AuthSendError(t) \/ AuthSendOk(t))
        /\ WF_vars(AuthBodyError(t) \/ AuthBodyOk(t))
        /\ WF_vars(FcmSendError(t) \/ FcmSendOk(t))
        /\ WF_vars(FcmTextError(t) \/ FcmTextOk(t))

OneTokenAuthBodyOk(t) == AuthBodyOk(t) /\ token' = Some(1)

FairNext ==
    \/ CreateSharedTokenManager
    \/ \E t \in Tasks : Call(t)
    \/ \E t \in Tasks : IsTokenExpired(t)
    \/ \E t \in Tasks : GetTokenCached(t)
    \/ \E t \in Tasks : RefreshBegin(t)
    \/ \E t \in Tasks : AuthSendError(t)
    \/ \E t \in Tasks : AuthSendOk(t)
    \/ \E t \in Tasks : AuthBodyError(t)
    \/ \E t \in Tasks : OneTokenAuthBodyOk(t)
    \/ \E t \in Tasks : FcmSendError(t)
    \/ \E t \in Tasks : FcmSendOk(t)
    \/ \E t \in Tasks : FcmTextError(t)
    \/ \E t \in Tasks : FcmTextOk(t)

FairSpec == Init /\ [][FairNext]_vars /\ Fairness

\* ------------------------------------------------------------------ typing
TypeOK ==
    /\ token \in {None} \cup {Some(k) : k \in Tokens}
    /\ expires_at \in {None} \cup {Some(i) : i \in 0 .. I64Max}
    /\ keyValid \in BOOLEAN
    /\ credentials \in {None} \cup {Some(stream) : stream \in CredentialStreams}
    /\ created \in {"", "Ok", "SerializationError"}
    /\ guard \subseteq Tasks
    /\ now \in 0 .. MaxTime
    /\ pc \in [Tasks -> {"idle", "lock", "auth_send", "auth_body", "fcm_send", "fcm_text"}]
    /\ extraHit \in BOOLEAN
\* ------------------------------------------------------------------ properties
\* The cache holds a token that is not expired at time n.
Valid(pair, n) == pair[1] # None /\ pair[2] # None /\ n < pair[2][1]

\* The step just taken was made by get_token, called directly or by a send, after
\* it entered the manager.
InGetToken == ev.op \in {"get_token", "send"} /\ ev.bearer = None

\* C1 as stated: a freshly constructed manager (no refresh yet) reports
\* is_token_expired() = true, and its first get_token never returns a cached value
\* and performs exactly one exchange with the authorization endpoint.
C1_FirstGetTokenOneExchange ==
    /\ (ev.op = "is_token_expired" /\ ev.ret /\ ev.fresh) => ev.expired
    /\ (ev.gt # "none" /\ ev.fresh) => (ev.gt # "cached" /\ ev.exch = 1)

\* C1 amended: a freshly constructed manager reports is_token_expired() = true, and
\* its first get_token never returns a cached value: it makes one refresh attempt,
\* with exactly one exchange when the assertion can be signed, and with none (the
\* call returns JwtEncodeError) when it cannot.
C1_FirstGetTokenRefreshes ==
    /\ (ev.op = "is_token_expired" /\ ev.ret /\ ev.fresh) => ev.expired
    /\ (ev.gt # "none" /\ ev.fresh) =>
        /\ ev.gt # "cached"
        /\ ev.exch = (IF keyValid THEN 1 ELSE 0)
        /\ ~keyValid => ev.res = "JwtEncodeError"

C1_Witness == ev.fresh /\ ev.gt = "refreshed" /\ ev.exch = 1

\* C2: when the manager holds a token and now < expires_at, get_token returns
\* exactly the cached token, makes no exchange, and leaves token and expires_at
\* unchanged.
C2_CachedTokenServed ==
    (InGetToken /\ Valid(ev.pre, now)) =>
        /\ ev.gt = "cached"
        /\ ev.tok = ev.pre[1]
        /\ ev.exch = 0
        /\ << token, expires_at >> = ev.pre

C2_Witness == ev.gt = "cached" /\ ev.op = "get_token" /\ Valid(ev.pre, now)

\* C3: is_token_expired() returns false if and only if expires_at is present and
\* strictly greater than the current monotonic time; it returns true when
\* expires_at is absent and when now = expires_at.
C3_ExpiredIff ==
    (ev.op = "is_token_expired" /\ ev.ret) =>
        /\ ev.expired = FALSE <=> (expires_at # None /\ expires_at[1] > now)
        /\ expires_at = None => ev.expired
        /\ expires_at = Some(now) => ev.expired

C3_Witness ==
    ev.op = "is_token_expired" /\ ev.ret /\ expires_at = Some(now) /\ ev.expired

\* C4: after a refresh succeeded at time t with expires_in = E, and as long as no
\* further refresh happens, is_token_expired() is false at every time in [t, t+E)
\* and true at every time >= t+E.
C4_ValidForExpiresIn ==
    lastOk # None =>
        (is_token_expired(expires_at, now) <=> now >= lastOk[1].at + lastOk[1].expires_in)

C4_Witness ==
    /\ lastOk # None
    /\ lastOk[1].expires_in = 2
    /\ now = lastOk[1].at + 2
    /\ is_token_expired(expires_at, now)

\* C5: after a successful refresh, the get_token and send calls made before the
\* token's expiry cause no further authorization exchange; they are served from
\* the cache.
C5_NoExchangeBeforeExpiry ==
    /\ Valid(<< token, expires_at >>, now) => ~extraHit
    /\ (InGetToken /\ Valid(ev.pre, now)) => ev.exch = 0

C5_Witness ==
    /\ ev.op = "send" /\ ev.gt = "cached" /\ ev.exch = 0
    /\ lastRefresh.outcome = "ok" /\ ~extraHit
C7_RetryAfterAnyFailure ==
    (ev.gt # "none" /\ ev.prior.outcome = "err") => ev.gt # "cached"

\* C7 amended: after a failed refresh made by get_token, the next get_token
\* retries the whole refresh (it builds a new assertion and, when that can be
\* signed, makes a new exchange) and never returns the cached token; after a
\* failed refresh_token it returns the cached token only if that token is still
\* valid (now < expires_at), and retries otherwise.
C7_RetryAfterFailure ==
    (ev.gt # "none" /\ ev.prior.outcome = "err") =>
        /\ ev.prior.by = "get_token" =>
            (ev.gt # "cached" /\ ev.exch = (IF keyValid THEN 1 ELSE 0))
        /\ ev.gt = "cached" => (ev.prior.by = "refresh_token" /\ Valid(ev.pre, now))
        /\ ev.gt # "cached" => ev.exch = (IF keyValid THEN 1 ELSE 0)

C7_Witness ==
    /\ ev.gt = "refreshed" /\ ev.exch = 1 /\ ev.pre[1] # None
    /\ ev.prior.outcome = "err" /\ ev.prior.by = "get_token"

\* C8: in every reachable state token and expires_at are either both absent or
\* both present.
C8_TokenAndExpiryTogether == (token = None) <=> (expires_at = None)

\* At most one task holds a guard, every task inside a refresh holds it, and no
\* two refreshes overlap.
MutualExclusion ==
    /\ Cardinality(guard) <= 1
    /\ \A t \in Tasks : pc[t] \in {"auth_send", "auth_body"} => t \in guard
    /\ Cardinality({t \in Tasks : pc[t] \in {"auth_send", "auth_body"}}) <= 1

\* C9: at most one task is inside a token operation at any time, no two refreshes
\* overlap, and no task ever observes a token paired with the expiry of another
\* refresh: whenever the lock is free, token and expires_at are the pair one
\* successful refresh wrote (or both absent).
C9_SerializedNoTornPair ==
    /\ MutualExclusion
    /\ guard = {} => << token, expires_at >> = written

\* C10: a send with notification = None and data = None fails with
\* FcmInvalidPayloadError without any network call (neither an authorization
\* exchange nor a messaging POST), in every state of the token manager.
C10_InvalidPayloadNoNetwork ==
    (ev.op = "send" /\ ev.payload = << None, None >>) =>
        (ev.res = "FcmInvalidPayloadError" /\ ev.exch = 0 /\ ev.posts = 0)

\* C11: payload construction. For every device token: notification and data both
\* present yield message{token, notification{title, body}, data}; notification
\* only yields message{token, notification} with `data` null; data only yields
\* message{token, data} with `notification` null; neither yields
\* FcmInvalidPayloadError; message.token always equals the given device token.
\* (The data payload is one that serializes, as the sender's contract has it.)
C11_PayloadConstruction ==
    (ev.device # "") =>
        LET notification == ev.payload[1]
            data == ev.payload[2]
            serializes == data # None /\ to_value(data[1]).err = ""
            message == ev.message[1].message
        IN  /\ (notification # None /\ serializes) =>
                /\ ev.message # None
                /\ DOMAIN ev.message[1] = {"message"}
                /\ DOMAIN message = {"token", "notification", "data"}
                /\ message.notification =
                       [title |-> notification[1].title, body |-> notification[1].body]
                /\ message.data = data[1]
            /\ (notification # None /\ data = None) =>
                /\ ev.message # None
                /\ DOMAIN message = {"token", "notification"}
                /\ message.notification =
                       [title |-> notification[1].title, body |-> notification[1].body]
                /\ json_index(message, "data") = None
            /\ (notification = None /\ serializes) =>
                /\ ev.message # None
                /\ DOMAIN message = {"token", "data"}
                /\ message.data = data[1]
                /\ json_index(message, "notification") = None
            /\ (notification = None /\ data = None) =>
                (ev.message = None /\ ev.res = "FcmInvalidPayloadError")
            /\ ev.message # None => json_index(message, "token") = Some(ev.device)

C11_Witness ==
    /\ ev.device = "other_device_token"
    /\ ev.payload = << None, Some("value") >>
    /\ ev.message = Some([message |-> [token |-> "other_device_token", data |-> "value"]])

\* The step just taken ended a send whose messaging POST had received a response
\* (the status line and headers: client.post(..).send().await returned Ok).
PostAnswered == ev.op = "send" /\ ev.bearer # None /\ ev.ret /\ ev.status # 0

\* C12 as stated: for a send whose messaging POST receives a response, a 2xx
\* status yields Ok(()), and any other status yields
\* FcmNetworkError(ServerError(status, Some(body text))).
C12_AnyOtherStatusServerError ==
    PostAnswered =>
        IF ev.status \in 200 .. 299
        THEN ev.res = "Ok"
        ELSE ev.res = "FcmNetworkError(ServerError)" /\ ev.text # None

\* C12 amended: for a send whose messaging POST receives a response, a 2xx status
\* yields Ok(()); any other status whose body can be read as text yields
\* FcmNetworkError(ServerError(status, Some(body text))) with exactly the received
\* status and body, and FcmNetworkError(ResponseError) when reading the body fails.
C12_StatusDecidesSend ==
    [][ /\ PostAnswered' =>
              IF ev'.status \in 200 .. 299
              THEN ev'.res = "Ok" /\ ev'.text = None
              ELSE \/ ev'.res = "FcmNetworkError(ServerError)" /\ ev'.text # None
                   \/ ev'.res = "FcmNetworkError(ResponseError)" /\ ev'.text = None
        /\ \A t \in Tasks :
              (pc[t] = "fcm_text" /\ PostAnswered' /\ ev'.task = t) =>
                  ev'.status = call[t].status
      ]_vars

C12_Witness ==
    /\ PostAnswered /\ ev.status = 500
    /\ ev.res = "FcmNetworkError(ServerError)"
    /\ ev.text = Some("Internal Server Error")

ForcedRefreshDone == ev.op = "refresh_token" /\ ev.refresh # "none"

\* C14 as stated: refresh_token always performs an authorization exchange, even
\* when the cached token is still valid; on success it replaces the cached token
\* with the response's access_token, sets expires_at to now + expires_in, and
\* returns the new token.
C14_ForcedRefreshAlwaysExchanges ==
    ForcedRefreshDone =>
        /\ ev.exch = 1
        /\ ev.refresh = "ok" =>
            /\ token = Some(ev.resp[1].access_token)
            /\ expires_at = Some(now + ev.resp[1].expires_in)
            /\ ev.res = "Ok" /\ ev.tok = token

\* C14 amended: refresh_token always attempts a refresh, even when the cached
\* token is still valid: it signs a new assertion and, when that can be signed,
\* performs exactly one authorization exchange (none, and JwtEncodeError, when it
\* cannot). On success it replaces the cached token with the response's
\* access_token, sets expires_at to now + expires_in, and returns the new token.
C14_ForcedRefresh ==
    ForcedRefreshDone =>
        /\ ev.gt = "none"
        /\ ev.exch = (IF keyValid THEN 1 ELSE 0)
        /\ ~keyValid => ev.res = "JwtEncodeError"
        /\ ev.refresh = "ok" =>
            /\ token = Some(ev.resp[1].access_token)
            /\ expires_at = Some(now + ev.resp[1].expires_in)
            /\ ev.res = "Ok" /\ ev.tok = token

C14_Witness ==
    /\ ForcedRefreshDone /\ Valid(ev.pre, now) /\ ev.refresh = "ok" /\ ev.exch = 1
    /\ token # ev.pre[1] /\ expires_at = Some(now + 1)

\* No call repeats a request: a get_token or refresh call makes at most one
\* authorization exchange, a send at most one messaging POST, and a call that
\* returns Ok had no failing step (a send returns Ok only on a 2xx answer to its
\* one POST, get_token and refresh_token only with a token).
NoRetry ==
    /\ \A t \in Tasks : call[t].exch <= 1 /\ call[t].posts <= 1
    /\ ev.exch <= 1 /\ ev.posts <= 1
    /\ ev.refresh = "err" => (ev.ret /\ ev.res # "Ok" /\ ev.tok = None)
    /\ (ev.op = "send" /\ ev.ret /\ ev.res = "Ok") =>
          (ev.posts = 1 /\ is_success(ev.status))
    /\ (ev.op \in {"get_token", "refresh_token"} /\ ev.ret /\ ev.res = "Ok") =>
          (ev.tok # None /\ ev.refresh # "err")

\* C15: there is no automatic retry (NoRetry), and every failure is returned to
\* the immediate caller as an error value: a call that ended without success,
\* and was not dropped by its caller, returned an FcmError.
C15_NoRetryErrorsReturned ==
    /\ NoRetry
    /\ (ev.task # 0 /\ ev.res \notin {"", "Ok", "Cancelled"}) =>
          /\ ev.ret
          /\ ev.res \in {"JwtEncodeError", "SerializationError",
                         "FcmInvalidPayloadError",
                         "OAuthNetworkError(SendRequestError)",
                         "OAuthNetworkError(ResponseError)",
                         "FcmNetworkError(SendRequestError)",
                         "FcmNetworkError(ResponseError)",
                         "FcmNetworkError(ServerError)"}

\* The step just taken ended a refresh whose authorization request had been
\* answered (with any status).
AuthAnswered == ev.refresh # "none" /\ ev.status # 0

\* C16: the status of the authorization response is not checked: a non-2xx
\* response whose body decodes to {access_token, expires_in} is a successful
\* refresh (cache updated, token returned), and a response of any status whose
\* body does not decode fails with OAuthNetworkError(ResponseError).
C16_AuthStatusNotChecked ==
    AuthAnswered =>
        IF ev.resp # None
        THEN /\ ev.refresh = "ok"
             /\ token = Some(ev.resp[1].access_token)
             /\ expires_at # None
             /\ ev.tok = token
        ELSE ev.res = "OAuthNetworkError(ResponseError)"

\* C17: whenever get_token returns Ok(t), t is the access_token of the most
\* recent successful refresh on the manager (the one this call made, or the one
\* whose result is cached): never a token of an older refresh or of an exchange
\* that did not end in a successful refresh.
C17_TokenOfLastSuccessfulRefresh ==
    ev.gt \in {"cached", "refreshed"} =>
        (ev.tok # None /\ ev.tok = written[1])

\* The FcmError values of the two network kinds (error.rs:9-41).
OAuthErrors == {"OAuthNetworkError(SendRequestError)", "OAuthNetworkError(ResponseError)"}
FcmErrors ==
    {"FcmNetworkError(SendRequestError)", "FcmNetworkError(ResponseError)",
     "FcmNetworkError(ServerError)"}

\* C18: errors are classified by call site. A failure talking to the
\* authorization endpoint (the request cannot be sent, the body does not decode)
\* is always OAuthNetworkError(SendRequestError | ResponseError); a failure
\* talking to the messaging endpoint (the request cannot be sent, the body cannot
\* be read, a status that is no 2xx) is always FcmNetworkError(SendRequestError |
\* ResponseError | ServerError); neither kind comes from the other call site.
C18_ErrorsByCallSite ==
    /\ (ev.refresh = "err" /\ ev.exch = 1) =>
          ev.res = (IF ev.status = 0 THEN "OAuthNetworkError(SendRequestError)"
                    ELSE "OAuthNetworkError(ResponseError)")
    /\ (ev.op = "send" /\ ev.bearer # None /\ ev.ret /\ ev.res # "Ok") =>
          /\ ev.res \in FcmErrors
          /\ ev.status = 0 <=> ev.res = "FcmNetworkError(SendRequestError)"
          /\ ev.res = "FcmNetworkError(ServerError)" => ~is_success(ev.status)
    /\ ev.res \in OAuthErrors =>
          (ev.refresh = "err" /\ ev.bearer = None /\ ev.posts = 0)
    /\ ev.res \in FcmErrors =>
          (ev.op = "send" /\ ev.bearer # None /\ ev.posts = 1)

C18_Witness ==
    /\ ev.op = "send" /\ ev.res = "FcmNetworkError(SendRequestError)"
    /\ ev.exch = 1 /\ ev.posts = 1 /\ ev.bearer = token /\ lastRefresh.outcome = "ok"

\* C19: is_token_expired never mutates the manager and never performs an
\* authorization exchange, in every cache state: a call of it is never at a
\* suspension point of an exchange, and the step that runs it leaves token,
\* expires_at and the key as they were and sends nothing.
C19_IsTokenExpiredPure ==
    [][ \A t \in Tasks :
          call[t].op = "is_token_expired" =>
              /\ pc[t] = "lock" /\ call[t].exch = 0
              /\ pc'[t] # pc[t] =>
                    /\ pc'[t] = "idle"
                    /\ UNCHANGED << token, expires_at, keyValid >>
                    /\ ev'.exch = 0 /\ ev'.posts = 0 /\ ev'.refresh = "none"
      ]_vars

C19_Witness ==
    /\ ev.op = "is_token_expired" /\ ev.ret /\ ev.expired
    /\ token # None /\ expires_at # None /\ ev.pre = << token, expires_at >>

\* C20: in a refresh the assertion is signed before any request is sent: when
\* signing fails (the private_key is no valid RSA PEM key) the refresh fails with
\* JwtEncodeError, no request reaches the authorization endpoint and the cache is
\* unchanged. A malformed key is detected at the first refresh, not when the
\* manager is constructed.
C20_SignedBeforeSent ==
    /\ (ev.op = "new" /\ ev.credentials[1].valid_json
           /\ RequiredFields \subseteq ev.credentials[1].members) =>
          (ev.res = "Ok" /\ created = "Ok" /\ keyValid = ev.credentials[1].rsa_pem)
    /\ (created = "Ok" /\ ~keyValid) =>
          /\ \A t \in Tasks : pc[t] \in {"idle", "lock"} /\ call[t].exch = 0
          /\ token = None /\ expires_at = None
          /\ ev.refresh \in {"none", "err"}
          /\ ev.refresh = "err" =>
                (ev.res = "JwtEncodeError" /\ ev.exch = 0 /\ ev.ret)
    /\ ev.res = "JwtEncodeError" =>
          /\ ~keyValid /\ ev.refresh = "err" /\ ev.exch = 0 /\ ev.posts = 0
          /\ << token, expires_at >> = ev.pre

C20_Witness ==
    /\ created = "Ok" /\ ~keyValid
    /\ ev.op = "refresh_token" /\ ev.fresh /\ ev.res = "JwtEncodeError" /\ ev.exch = 0

\* C21: when two or more tasks send concurrently on a shared manager that is unset
\* or expired and the first refresh succeeds with an expiry that outlasts the
\* other tasks' get_token calls, one authorization exchange is made in total: the
\* refreshing send makes exactly one, and every send that acquires the lock while
\* the token written is unexpired is served that token from the cache, makes no
\* exchange and leaves the cache as it is.
C21_OneExchangeForConcurrentSends ==
    [][ /\ \A t \in Tasks :
              (pc[t] = "lock" /\ call[t].op = "send" /\ pc'[t] # "lock"
                 /\ ev'.res # "Cancelled" /\ Valid(<< token, expires_at >>, now)) =>
                  /\ ev'.task = t /\ ev'.gt = "cached" /\ ev'.exch = 0
                  /\ ev'.tok = token
                  /\ UNCHANGED << token, expires_at, extraHit >>
        /\ (ev'.op = "send" /\ ev'.gt = "refreshed") => ev'.exch = 1
        /\ Valid(<< token', expires_at' >>, now') => ~extraHit'
      ]_vars

C21_Witness ==
    /\ ev.op = "send" /\ ev.gt = "cached" /\ ev.exch = 0 /\ ~extraHit
    /\ ev.pre = written /\ lastRefresh.outcome = "ok"
    /\ \E u \in Tasks \ {ev.task} :
          /\ pc[u] = "fcm_send" /\ call[u].op = "send"
          /\ call[u].exch = 1 /\ call[u].bearer = ev.tok

\* C22: when get_token fails inside a send, the send returns that same error and
\* issues no messaging POST; a messaging POST is only ever issued with the bearer
\* token that get_token returned in that same send call.
C22_PostOnlyWithOwnToken ==
    [][ /\ (ev'.op = "send" /\ ev'.gt = "err") =>
              /\ ev'.ret /\ ev'.posts = 0 /\ ev'.bearer = None
              /\ ev'.res \in {"JwtEncodeError"} \cup OAuthErrors
              /\ pc'[ev'.task] = "idle"
        /\ \A t \in Tasks :
              /\ pc'[t] \in {"fcm_send", "fcm_text"} =>
                    (call'[t].op = "send" /\ call'[t].posts = 1 /\ call'[t].bearer # None)
              /\ (pc'[t] = "fcm_send" /\ pc[t] # "fcm_send") =>
                    /\ ev'.task = t /\ ev'.gt \in {"cached", "refreshed"}
                    /\ call'[t].bearer = ev'.tok
                    /\ call[t].posts = 0
              /\ pc[t] \in {"fcm_send", "fcm_text"} =>
                    (pc'[t] # "idle" => call'[t].bearer = call[t].bearer)
      ]_vars

C22_Witness ==
    /\ ev.op = "send" /\ ev.gt = "refreshed" /\ ev.pre[1] # None /\ ev.tok # ev.pre[1]
    /\ pc[ev.task] = "fcm_send" /\ call[ev.task].bearer = ev.tok

\* C23: a send holds the manager's lock only while get_token runs and has
\* released it before the messaging POST starts: the lock is held by exactly the
\* tasks inside an authorization exchange, never by one whose POST is in flight,
\* so that another task can acquire the manager and complete get_token meanwhile.
C23_LockReleasedBeforePost ==
    /\ guard = {t \in Tasks : pc[t] \in {"auth_send", "auth_body"}}
    /\ \A t \in Tasks : pc[t] \in {"fcm_send", "fcm_text"} => t \notin guard
    /\ (\E t \in Tasks : pc[t] \in {"fcm_send", "fcm_text"})
         /\ (\A t \in Tasks : pc[t] \notin {"auth_send", "auth_body"})
       => lock_free(guard)

C23_Witness ==
    /\ ev.op = "get_token" /\ ev.gt = "refreshed" /\ ev.ret /\ ev.res = "Ok"
    /\ \E u \in Tasks \ {ev.task} :
          pc[u] = "fcm_send" /\ call[u].bearer # None /\ call[u].bearer # ev.tok

\* C24: a failure on the messaging side of a send (invalid payload, serialization
\* error, request cannot be sent, a status that is no 2xx, body read failure)
\* leaves the manager's token and expires_at unchanged: a failure after the POST
\* was issued changes nothing in the manager and starts no exchange, and a
\* payload error leaves the cache as the send's get_token left it (untouched when
\* it was served from the cache, the pair just written when it refreshed).
C24_SendFailureKeepsCache ==
    [][ (ev'.op = "send" /\ ev'.ret /\ ev'.res # "Ok" /\ ev'.gt # "err") =>
          /\ ev'.res \in FcmErrors \cup {"FcmInvalidPayloadError", "SerializationError"}
          /\ ev'.res \in FcmErrors =>
                /\ ev'.gt = "none"
                /\ UNCHANGED << token, expires_at, lastRefresh, refreshBegun, extraHit >>
                /\ ev'.exch = call[ev'.task].exch
          /\ ev'.res \notin FcmErrors =>
                /\ ev'.gt \in {"cached", "refreshed"}
                /\ ev'.gt = "cached" => UNCHANGED << token, expires_at >>
                /\ ev'.gt = "refreshed" =>
                      /\ token' = ev'.tok
                      /\ expires_at' = Some(now + ev'.resp[1].expires_in)
      ]_vars

C24_Witness ==
    /\ ev.op = "send" /\ ev.res = "FcmNetworkError(ServerError)" /\ ev.status = 401
    /\ Valid(<< token, expires_at >>, now) /\ token = ev.bearer

\* C25: assuming every HTTP exchange eventually completes (with a response or an
\* error) and tasks are scheduled fairly, every call on a shared manager (send,
\* get_token, and the others) eventually ends and the lock is eventually free:
\* there is no deadlock among concurrent callers.
C25_EveryCallEnds ==
    /\ \A t \in Tasks : (pc[t] # "idle") ~> (pc[t] = "idle" /\ ev.task = t)
    /\ (guard # {}) ~> (guard = {})

C25_Witness ==
    /\ guard = {} /\ ev.refresh # "none" /\ ev.exch = 1
    /\ \E u \in Tasks \ {ev.task} : pc[u] = "lock" /\ call[u].op \in {"get_token", "send"}

\* C26: the lock is held across the whole authorization exchange: while one
\* task's refresh exchange is outstanding, no other task completes get_token,
\* is_token_expired or any other manager operation, even when the cache holds a
\* still-valid token (as during a forced refresh_token): a task at lock().await
\* stays there, unless its caller drops it.
C26_LockHeldAcrossExchange ==
    [][ \A t \in Tasks :
          pc[t] \in {"auth_send", "auth_body"} =>
              /\ t \in guard
              /\ \A u \in Tasks \ {t} :
                    /\ pc[u] \notin {"auth_send", "auth_body"}
                    /\ pc[u] = "lock" =>
                          \/ pc'[u] = "lock"
                          \/ pc'[u] = "idle" /\ ev'.task = u /\ ev'.res = "Cancelled"
      ]_vars

C26_Witness ==
    \E t \in Tasks, u \in Tasks :
        /\ pc[t] = "auth_body" /\ call[t].op = "refresh_token" /\ t \in guard
        /\ Valid(<< token, expires_at >>, now)
        /\ pc[u] = "lock" /\ call[u].op = "get_token"

\* C27: when a caller is cancelled (its future dropped) while its refresh
\* exchange is outstanding, token and expires_at are exactly what they were
\* before that call and the lock is released, so that later callers can acquire
\* the manager and refresh: the cache is written only after the exchange has
\* completed (no task inside an exchange has written anything), and both fields
\* are written in one step.
C27_CancelledRefreshKeepsCache ==
    [][ /\ (ev'.res = "Cancelled" /\ ev'.exch = 1 /\ ev'.bearer = None) =>
              /\ << token', expires_at' >> = ev'.pre
              /\ UNCHANGED << token, expires_at, written, lastRefresh >>
              /\ lock_free(guard')
              /\ pc'[ev'.task] = "idle"
        /\ \A t \in Tasks :
              (pc[t] \in {"auth_send", "auth_body"} /\ pc'[t] \in {"auth_send", "auth_body"}) =>
                  (UNCHANGED << token, expires_at >> /\ << token, expires_at >> = call[t].pre)
        /\ (token' # token /\ expires_at' # expires_at /\ created = "Ok") =>
              (ev'.refresh = "ok" /\ written' = << token', expires_at' >>)
      ]_vars

C27_Witness ==
    /\ ev.res = "Cancelled" /\ ev.exch = 1 /\ ev.bearer = None /\ ev.status # 0
    /\ ev.pre[1] # None /\ << token, expires_at >> = ev.pre /\ guard = {}
    /\ \E u \in Tasks \ {ev.task} : pc[u] = "lock"

\* C28: for every expires_in the response can carry (0 and the largest value
\* included), a decoded authorization response completes the refresh with the
\* token cached and expires_at = now + expires_in; after expires_in = 0 the token
\* is expired at once, so that no later get_token is served from that refresh.
C28_EveryExpiresInCompletes ==
    /\ (ev.refresh # "none" /\ ev.resp # None) =>
          /\ ev.refresh = "ok"
          /\ token = Some(ev.resp[1].access_token)
          /\ expires_at = Some(now + ev.resp[1].expires_in)
          /\ ev.resp[1].expires_in = 0 => is_token_expired(expires_at, now)
    /\ (ev.gt = "cached" /\ lastOk # None) => lastOk[1].expires_in # 0

\* The same with the addition now + expires_in representable as an Instant.
C28_RepresentableExpiresInCompletes ==
    /\ (ev.refresh # "none" /\ ev.resp # None /\ now + ev.resp[1].expires_in <= I64Max) =>
          /\ ev.refresh = "ok"
          /\ token = Some(ev.resp[1].access_token)
          /\ expires_at = Some(now + ev.resp[1].expires_in)
          /\ ev.resp[1].expires_in = 0 => is_token_expired(expires_at, now)
    /\ (ev.gt = "cached" /\ lastOk # None) => lastOk[1].expires_in # 0
====
